---- MODULE Spec2Model ----
(***************************************************************************)
(* Model of shanzhai_tf::Notifier (taskflow/core/notifier.hpp): the 64-bit *)
(* state word, the waiter slots, the intrusive park stack and the          *)
(* PrepareWait / CommitWait / CancelWait / Notify / NotifyN protocol.      *)
(*                                                                         *)
(* A 64-bit word is a tuple of four 16-bit limbs, least significant first: *)
(*   <<stack, prepare-count, epoch low half, epoch high half>>             *)
(* so every shift and mask of the source is a limb operation and the       *)
(* arithmetic keeps its 64-bit width (carries and borrows propagate).      *)
(***************************************************************************)
EXTENDS Integers, Sequences, FiniteSets, TLC

(* ------------------------------ bounds --------------------------------- *)

\* capacity of the Notifier (the constructor's argument); one waiter thread per slot
N == 3

\* number of waiter threads that run concurrently with every other thread
NumWaiters == 2

\* number of threads that call Notify / NotifyN
NumNotifiers == 1

\* PrepareWait calls each waiter thread may make
MaxRounds == 2

\* Notify / NotifyN calls made in total
MaxCalls == 2

\* capacities tried by the constructor: 0..CapRange and the CapRange values on
\* either side of the largest index of the stack field
CapRange == 40

(* --------------------------- state word codec --------------------------- *)

\* bits of a limb, and the number of values of a limb
LimbBits == 16

Limb == 2 ^ LimbBits

kStackBits == 16

kWaiterBits == 16

kWaiterShift == 16

kEpochBits == 32

kEpochShift == 32

Word == [1..4 -> 0..(Limb - 1)]

\* The word operations are functions of their operands' values, so that an
\* operand is evaluated once however often the body uses it.

\* 64-bit addition, modulo 2^64
add64[a \in Word, b \in Word] ==
  LET s1 == a[1] + b[1]
      s2 == a[2] + b[2] + (s1 \div Limb)
      s3 == a[3] + b[3] + (s2 \div Limb)
      s4 == a[4] + b[4] + (s3 \div Limb)
  IN  <<s1 % Limb, s2 % Limb, s3 % Limb, s4 % Limb>>

Add64(a, b) == add64[a, b]

\* bitwise complement
not64[a \in Word] ==
  <<Limb - 1 - a[1], Limb - 1 - a[2], Limb - 1 - a[3], Limb - 1 - a[4]>>

Not64(a) == not64[a]

\* 64-bit subtraction, modulo 2^64 (two's complement)
Sub64(a, b) == Add64(a, Add64(Not64(b), <<1, 0, 0, 0>>))

\* a & m for a mask m whose limbs are all-zeros or all-ones
and64[a \in Word, m \in Word] ==
  LET f(i) == IF m[i] = Limb - 1 THEN a[i] ELSE 0
  IN  <<f(1), f(2), f(3), f(4)>>

And64(a, m) == and64[a, m]

\* a | b for operands with no limb set in both (or equal limbs)
or64[a \in Word, b \in Word] ==
  LET f(i) == IF a[i] = 0 THEN b[i] ELSE a[i]
  IN  <<f(1), f(2), f(3), f(4)>>

Or64(a, b) == or64[a, b]

\* a << (16 * k) and a >> (16 * k)
shl64[a \in Word, k \in 0..4] ==
  LET f(i) == IF i - k >= 1 THEN a[i - k] ELSE 0
  IN  <<f(1), f(2), f(3), f(4)>>

Shl64(a, k) == shl64[a, k]

shr64[a \in Word, k \in 0..4] ==
  LET f(i) == IF i + k <= 4 THEN a[i + k] ELSE 0
  IN  <<f(1), f(2), f(3), f(4)>>

Shr64(a, k) == shr64[a, k]

\* size_t / index to uint64_t
U64(n) == <<n % Limb, (n \div Limb) % Limb, 0, 0>>

\* sign of static_cast<int64_t>(a): -1, 0 or 1
sign64[a \in Word] ==
  IF a[4] >= Limb \div 2 THEN -1
  ELSE IF a = <<0, 0, 0, 0>> THEN 0 ELSE 1

Sign64(a) == sign64[a]

\* (1ull << kStackBits) - 1
kStackMask == U64(2 ^ kStackBits - 1)

\* ((1ull << kWaiterBits) - 1) << kWaiterShift
kWaiterMask == Shl64(U64(2 ^ kWaiterBits - 1), kWaiterShift \div LimbBits)

\* ((1ull << kEpochBits) - 1) << kEpochShift
kEpochMask == Shl64(<<Limb - 1, Limb - 1, 0, 0>>, kEpochShift \div LimbBits)

\* 1ull << kWaiterBits
kWaiterInc == Shl64(U64(1), kWaiterBits \div LimbBits)

\* 1ull << kEpochShift
kEpochInc == Shl64(U64(1), kEpochShift \div LimbBits)

\* kEpochInc * n, for n < 2^32
EpochTimes(n) == Shl64(U64(n), kEpochShift \div LimbBits)

(* ------------------------------ threads -------------------------------- *)

\* waiter thread i uses slot waiters_[i]
Slots == 0..(N - 1)

\* the waiter threads of the unrestricted specification
Waiters == 0..(NumWaiters - 1)

Notifiers == 1..NumNotifiers

nullptr == -1

kNotSignaled == 0

kWaiting == 1

kSignaled == 2

VARIABLES
  state_,     \* Notifier::state_
  next_,      \* Waiter::next_ of every slot (a slot index or nullptr)
  epoch_,     \* Waiter::epoch_ of every slot
  wstate_,    \* Waiter::state_ of every slot
  cvwake,     \* slot -> a notify_one reached the thread blocked in cv_.wait
  pc,         \* waiter thread -> position
  lstate,     \* waiter thread -> local `state` of CommitWait / CancelWait
  rounds,     \* waiter thread -> PrepareWait calls left
  npc,        \* notifier thread -> position
  nall,       \* notifier thread -> argument `all` of the running Notify
  nleft,      \* notifier thread -> Notify calls the running call still has to finish
  nstate,     \* notifier thread -> local `state`
  nnew,       \* notifier thread -> local `new_state`
  niter,      \* notifier thread -> local `iter`
  nloopnext,  \* notifier thread -> local `loop_next`
  nloopstate, \* notifier thread -> local `loop_state`
  calls,      \* Notify / NotifyN calls left
  narg,       \* history: notifier thread -> argument n of the running NotifyN, else -1
  ndone,      \* history: notifier thread -> Notify calls the running NotifyN has finished
  parked,     \* history: slots pushed and not yet popped, top first
  npopped,    \* history: notifier thread -> slots its last successful CAS popped, top first
  cancelled,  \* history: waiter thread -> the last call it completed was CancelWait
  size,       \* waiters_.size()
  aborted     \* an assert of the constructor has failed

vars == <<state_, next_, epoch_, wstate_, cvwake, pc, lstate, rounds,
          npc, nall, nleft, nstate, nnew, niter, nloopnext, nloopstate,
          calls, narg, ndone, parked, npopped, cancelled, size, aborted>>

slotvars == <<next_, epoch_, wstate_, cvwake>>

wvars == <<pc, lstate, rounds, cancelled>>

\* the variables only the constructor writes
cvars == <<size, aborted>>

nvars == <<npc, nall, nleft, nstate, nnew, niter, nloopnext, nloopstate,
           calls, narg, ndone, npopped>>

(* --------------------------- field accessors --------------------------- *)

\* state & kStackMask, as a number
StackOf(s) == And64(s, kStackMask)[1]

\* (state & kWaiterMask) >> kWaiterShift, as a number
WaitersOf(s) == Shr64(And64(s, kWaiterMask), kWaiterShift \div LimbBits)[1]

\* state & kEpochMask
EpochOf(s) == And64(s, kEpochMask)

StackEmpty(s) == And64(s, kStackMask) = kStackMask

(* ----------------------------- constructor ----------------------------- *)

\* state_ = kStackMask | (kEpochMask - kEpochInc * waiters_.size() * 2)
InitState(n) == Or64(kStackMask, Sub64(kEpochMask, EpochTimes(n * 2)))

\* CtorAssert with the test written `<=`
CtorAssert_LessEq(n) == n <= 2 ^ kWaiterBits - 1

\* assert(waiters_.size() < (1 << kWaiterBits) - 1)
CtorAssert(n) == n < 2 ^ kWaiterBits - 1

\* the state after Notifier(N), with r[w] PrepareWait calls for waiter thread w
\* and c Notify / NotifyN calls still to come
InitWith(r, c) ==
  /\ state_ = InitState(N)
  /\ next_ = [s \in Slots |-> nullptr]
  /\ epoch_ = [s \in Slots |-> <<0, 0, 0, 0>>]
  /\ wstate_ = [s \in Slots |-> kNotSignaled]
  /\ cvwake = [s \in Slots |-> FALSE]
  /\ pc = [w \in Slots |-> "idle"]
  /\ lstate = [w \in Slots |-> <<0, 0, 0, 0>>]
  /\ rounds = r
  /\ npc = [t \in Notifiers |-> "idle"]
  /\ nall = [t \in Notifiers |-> FALSE]
  /\ nleft = [t \in Notifiers |-> 0]
  /\ nstate = [t \in Notifiers |-> <<0, 0, 0, 0>>]
  /\ nnew = [t \in Notifiers |-> <<0, 0, 0, 0>>]
  /\ niter = [t \in Notifiers |-> nullptr]
  /\ nloopnext = [t \in Notifiers |-> nullptr]
  /\ nloopstate = [t \in Notifiers |-> kNotSignaled]
  /\ calls = c
  /\ narg = [t \in Notifiers |-> -1]
  /\ ndone = [t \in Notifiers |-> 0]
  /\ parked = <<>>
  /\ npopped = [t \in Notifiers |-> <<>>]
  /\ cancelled = [w \in Slots |-> FALSE]
  /\ size = N
  /\ aborted = FALSE

Init == InitWith([w \in Slots |-> IF w \in Waiters THEN MaxRounds ELSE 0], MaxCalls)

\* ~Notifier: assert((state_ & (kStackMask | kWaiterMask)) == kStackMask)
DtorAssert == And64(state_, Or64(kStackMask, kWaiterMask)) = kStackMask

(* ------------------------------ PrepareWait ----------------------------- *)

\* state_.fetch_add(kWaiterInc): the new value of state_
PrepareNewState(s) == Add64(s, kWaiterInc)

PrepareWait(w) ==
  /\ pc[w] = "idle"
  /\ rounds[w] > 0
  /\ epoch_' = [epoch_ EXCEPT ![w] = state_]
  /\ state_' = PrepareNewState(state_)
  /\ pc' = [pc EXCEPT ![w] = "prepared"]
  /\ rounds' = [rounds EXCEPT ![w] = @ - 1]
  /\ cancelled' = [cancelled EXCEPT ![w] = FALSE]
  /\ UNCHANGED <<next_, wstate_, cvwake, lstate, nvars, parked, cvars>>

(* ------------------------ CommitWait / CancelWait ----------------------- *)

\* ExpectedEpoch without the prepare count of the snapshot
ExpectedEpoch_NoCount(e) == And64(e, kEpochMask)

\* epoch = (w->epoch_ & kEpochMask) + (((w->epoch_ & kWaiterMask) >> kWaiterShift) << kEpochShift)
ExpectedEpoch(e) ==
  Add64(And64(e, kEpochMask),
        Shl64(Shr64(And64(e, kWaiterMask), kWaiterShift \div LimbBits),
              kEpochShift \div LimbBits))

\* EpochCmp by a plain comparison of the raw bits: 64-bit words whose low 32
\* bits are zero, compared from the most significant limb down
EpochCmp_Raw(s, epoch) ==
  LET a == And64(s, kEpochMask)
  IN  IF a[4] # epoch[4] THEN (IF a[4] < epoch[4] THEN -1 ELSE 1)
      ELSE IF a[3] # epoch[3] THEN (IF a[3] < epoch[3] THEN -1 ELSE 1)
      ELSE 0

\* EpochCmp that takes current > expected for current == expected
EpochCmp_NoReturn(s, epoch) ==
  IF Sign64(Sub64(And64(s, kEpochMask), epoch)) > 0 THEN 0
  ELSE Sign64(Sub64(And64(s, kEpochMask), epoch))

\* EpochCmp that takes current < expected for current == expected
EpochCmp_NoYield(s, epoch) ==
  IF Sign64(Sub64(And64(s, kEpochMask), epoch)) < 0 THEN 0
  ELSE Sign64(Sub64(And64(s, kEpochMask), epoch))

\* sign of static_cast<int64_t>((state & kEpochMask) - epoch)
EpochCmp(s, epoch) == Sign64(Sub64(And64(s, kEpochMask), epoch))

\* CommitNewState without the increment of the epoch
CommitNewState_NoEpoch(s, w) ==
  Or64(And64(Sub64(s, kWaiterInc), Not64(kStackMask)), U64(w))

\* new_state = ((state - kWaiterInc + kEpochInc) & ~kStackMask) | (w - &waiters_[0])
CommitNewState(s, w) ==
  Or64(And64(Add64(Sub64(s, kWaiterInc), kEpochInc), Not64(kStackMask)), U64(w))

\* CommitNext that always stores nullptr
CommitNext_Null(s) == nullptr

\* the value CommitWait stores in w->next_
CommitNext(s) == IF StackEmpty(s) THEN nullptr ELSE StackOf(s)

\* CancelNewState without the decrement of the prepare count
CancelNewState_NoDec(s) == Add64(s, kEpochInc)

\* CancelNewState without the increment of the epoch
CancelNewState_NoEpoch(s) == Sub64(s, kWaiterInc)

\* new_state = state - kWaiterInc + kEpochInc
CancelNewState(s) == Add64(Sub64(s, kWaiterInc), kEpochInc)

\* CommitWait, up to the first load of state_
CommitWaitBegin(w) ==
  /\ pc[w] = "prepared"
  /\ wstate_' = [wstate_ EXCEPT ![w] = kNotSignaled]
  /\ lstate' = [lstate EXCEPT ![w] = state_]
  /\ pc' = [pc EXCEPT ![w] = "commit_loop"]
  /\ UNCHANGED <<state_, next_, epoch_, cvwake, rounds, nvars, parked, cancelled, cvars>>

\* CommitWait called again after CancelWait returned, without a PrepareWait in
\* between, as ThreadFunc1 does: up to the first load of state_
CommitAfterCancel(w) ==
  /\ pc[w] = "idle"
  /\ cancelled[w]
  /\ wstate_' = [wstate_ EXCEPT ![w] = kNotSignaled]
  /\ lstate' = [lstate EXCEPT ![w] = state_]
  /\ pc' = [pc EXCEPT ![w] = "commit_loop"]
  /\ UNCHANGED <<state_, next_, epoch_, cvwake, rounds, nvars, parked, cancelled, cvars>>

\* one pass of CommitWait's loop up to the compare_exchange: yield and reload,
\* return, or store w->next_
CommitWaitLoop(w) ==
  /\ pc[w] = "commit_loop"
  /\ LET c == EpochCmp(lstate[w], ExpectedEpoch(epoch_[w]))
     IN  CASE c < 0 -> /\ lstate' = [lstate EXCEPT ![w] = state_]
                       /\ UNCHANGED <<pc, next_>>
           [] c > 0 -> /\ pc' = [pc EXCEPT ![w] = "idle"]
                       /\ lstate' = [lstate EXCEPT ![w] = <<0, 0, 0, 0>>]
                       /\ UNCHANGED next_
           [] OTHER -> /\ next_' = [next_ EXCEPT ![w] = CommitNext(lstate[w])]
                       /\ pc' = [pc EXCEPT ![w] = "commit_cas"]
                       /\ UNCHANGED lstate
  /\ cancelled' = [cancelled EXCEPT ![w] = @ /\ pc'[w] # "idle"]
  /\ UNCHANGED <<state_, epoch_, wstate_, cvwake, rounds, nvars, parked, cvars>>

\* state_.compare_exchange_weak(state, new_state); a spurious failure repeats the
\* pass with the same `state` and is not modelled
CommitWaitCas(w) ==
  /\ pc[w] = "commit_cas"
  /\ IF state_ = lstate[w]
       THEN /\ state_' = CommitNewState(lstate[w], w)
            /\ pc' = [pc EXCEPT ![w] = "park"]
            /\ parked' = <<w>> \o parked
            /\ lstate' = [lstate EXCEPT ![w] = <<0, 0, 0, 0>>]
       ELSE /\ lstate' = [lstate EXCEPT ![w] = state_]
            /\ pc' = [pc EXCEPT ![w] = "commit_loop"]
            /\ UNCHANGED <<state_, parked>>
  /\ UNCHANGED <<slotvars, rounds, nvars, cancelled, cvars>>

\* the park block: lock w->mutex_, test w->state_, set kWaiting and wait
Park(w) ==
  /\ pc[w] = "park"
  /\ IF wstate_[w] = kSignaled
       THEN /\ pc' = [pc EXCEPT ![w] = "idle"]
            /\ UNCHANGED <<wstate_, cvwake>>
       ELSE /\ wstate_' = [wstate_ EXCEPT ![w] = kWaiting]
            /\ cvwake' = [cvwake EXCEPT ![w] = FALSE]
            /\ pc' = [pc EXCEPT ![w] = "waiting"]
  /\ UNCHANGED <<state_, next_, epoch_, lstate, rounds, nvars, parked, cancelled, cvars>>

\* cv_.wait returns after a notify_one and the while condition is tested again
Wake(w) ==
  /\ pc[w] = "waiting"
  /\ cvwake[w]
  /\ cvwake' = [cvwake EXCEPT ![w] = FALSE]
  /\ IF wstate_[w] = kSignaled
       THEN /\ pc' = [pc EXCEPT ![w] = "idle"]
            /\ UNCHANGED wstate_
       ELSE /\ wstate_' = [wstate_ EXCEPT ![w] = kWaiting]
            /\ UNCHANGED pc
  /\ UNCHANGED <<state_, next_, epoch_, lstate, rounds, nvars, parked, cancelled, cvars>>

\* cv_.wait returns spuriously, before any notify_one, and finds kSignaled
\* (a spurious return that finds another value waits again and changes nothing)
SpuriousWake(w) ==
  /\ pc[w] = "waiting"
  /\ ~cvwake[w]
  /\ wstate_[w] = kSignaled
  /\ pc' = [pc EXCEPT ![w] = "idle"]
  /\ UNCHANGED <<state_, slotvars, lstate, rounds, nvars, parked, cancelled, cvars>>

\* CancelWait, up to the first load of state_
CancelWaitBegin(w) ==
  /\ pc[w] = "prepared"
  /\ lstate' = [lstate EXCEPT ![w] = state_]
  /\ pc' = [pc EXCEPT ![w] = "cancel_loop"]
  /\ UNCHANGED <<state_, slotvars, rounds, nvars, parked, cancelled, cvars>>

\* one pass of CancelWait's loop: yield and reload, return, or compare_exchange
CancelWaitLoop(w) ==
  /\ pc[w] = "cancel_loop"
  /\ LET c == EpochCmp(lstate[w], ExpectedEpoch(epoch_[w]))
     IN  CASE c < 0 -> /\ lstate' = [lstate EXCEPT ![w] = state_]
                       /\ UNCHANGED <<pc, state_>>
           [] c > 0 -> /\ pc' = [pc EXCEPT ![w] = "idle"]
                       /\ lstate' = [lstate EXCEPT ![w] = <<0, 0, 0, 0>>]
                       /\ UNCHANGED state_
           [] OTHER -> IF state_ = lstate[w]
                         THEN /\ state_' = CancelNewState(lstate[w])
                              /\ pc' = [pc EXCEPT ![w] = "idle"]
                              /\ lstate' = [lstate EXCEPT ![w] = <<0, 0, 0, 0>>]
                         ELSE /\ lstate' = [lstate EXCEPT ![w] = state_]
                              /\ UNCHANGED <<pc, state_>>
  /\ cancelled' = [cancelled EXCEPT ![w] = (pc'[w] = "idle")]
  /\ UNCHANGED <<slotvars, rounds, nvars, parked, cvars>>

(* -------------------------------- Notify -------------------------------- *)

\* NotifyNewState with the cheap path's test written `waiters >= 0`
NotifyNewState_CheapAlways(s, all, wnext) ==
  IF all
    THEN Add64(Add64(And64(s, kEpochMask), EpochTimes(WaitersOf(s))), kStackMask)
    ELSE Sub64(Add64(s, kEpochInc), kWaiterInc)

\* NotifyNewState whose Notify(true) adds one epoch increment, whatever the
\* prepare count
NotifyNewState_AllBumpsOne(s, all, wnext) ==
  IF all
    THEN Add64(Add64(And64(s, kEpochMask), kEpochInc), kStackMask)
    ELSE IF WaitersOf(s) > 0
      THEN Sub64(Add64(s, kEpochInc), kWaiterInc)
      ELSE Add64(And64(s, kEpochMask),
                 IF wnext = nullptr THEN kStackMask ELSE U64(wnext))

\* new_state of Notify for the three branches; wnext is w->next_ of the stack's
\* top waiter, read only on the pop branch
NotifyNewState(s, all, wnext) ==
  IF all
    THEN Add64(Add64(And64(s, kEpochMask), EpochTimes(WaitersOf(s))), kStackMask)
    ELSE IF WaitersOf(s) > 0
      THEN Sub64(Add64(s, kEpochInc), kWaiterInc)
      ELSE Add64(And64(s, kEpochMask),
                 IF wnext = nullptr THEN kStackMask ELSE U64(wnext))

\* NotifyNothingToDo without the early return
NotifyNothingToDo_Never(s) == FALSE

\* the early return of Notify's loop: nobody announced, nobody parked
NotifyNothingToDo(s) == StackEmpty(s) /\ WaitersOf(s) = 0

\* NotifyHasChain with the signalling skipped unless `all`
NotifyHasChain_OnlyAll(s, all) == all /\ ~StackEmpty(s)

\* NotifyHasChain without the return of the cheap path
NotifyHasChain_IgnoreCheap(s, all) == ~StackEmpty(s)

\* after a successful compare_exchange: is there a chain to signal?
NotifyHasChain(s, all) ==
  /\ ~(~all /\ WaitersOf(s) > 0)
  /\ ~StackEmpty(s)

\* loop_next = w->next_.load(): the link read at the top of every pass of the
\* signalling loop (w is the popped top of the stack, iter the node being signalled)
WalkNext(w, iter) == next_[w]

\* NotifyNAll with the test written `n > waiters_.size()`
NotifyNAll_Greater(n) == n > N

\* NotifyN: n >= waiters_.size() selects Notify(true)
NotifyNAll(n) == n >= N

\* Notify calls NotifyN(n) makes
NotifyNCalls(n) == IF NotifyNAll(n) THEN 1 ELSE n

\* a Notify call returns: NotifyN's loop goes on, or the whole call is over
NotifyReturns(t) ==
  /\ nleft' = [nleft EXCEPT ![t] = @ - 1]
  /\ nstate' = [nstate EXCEPT ![t] = <<0, 0, 0, 0>>]
  /\ nnew' = [nnew EXCEPT ![t] = <<0, 0, 0, 0>>]
  /\ niter' = [niter EXCEPT ![t] = nullptr]
  /\ nloopnext' = [nloopnext EXCEPT ![t] = nullptr]
  /\ nloopstate' = [nloopstate EXCEPT ![t] = kNotSignaled]
  /\ npopped' = [npopped EXCEPT ![t] = <<>>]
  /\ IF nleft[t] > 1
       THEN /\ npc' = [npc EXCEPT ![t] = "n_begin"]
            /\ ndone' = [ndone EXCEPT ![t] = @ + 1]
            /\ UNCHANGED <<nall, narg>>
       ELSE /\ npc' = [npc EXCEPT ![t] = "idle"]
            /\ ndone' = [ndone EXCEPT ![t] = 0]
            /\ nall' = [nall EXCEPT ![t] = FALSE]
            /\ narg' = [narg EXCEPT ![t] = -1]

\* a thread calls Notify(all)
NotifyCall(t, all) ==
  /\ npc[t] = "idle"
  /\ calls > 0
  /\ calls' = calls - 1
  /\ npc' = [npc EXCEPT ![t] = "n_begin"]
  /\ nall' = [nall EXCEPT ![t] = all]
  /\ nleft' = [nleft EXCEPT ![t] = 1]
  /\ UNCHANGED <<state_, slotvars, wvars, nstate, nnew, niter, nloopnext,
                 nloopstate, narg, ndone, npopped, parked, cvars>>

\* a thread calls NotifyN(n)
NotifyNCall(t, n) ==
  /\ npc[t] = "idle"
  /\ calls > 0
  /\ calls' = calls - 1
  /\ IF NotifyNCalls(n) = 0
       THEN UNCHANGED <<npc, nall, nleft, narg>>
       ELSE /\ npc' = [npc EXCEPT ![t] = "n_begin"]
            /\ nall' = [nall EXCEPT ![t] = NotifyNAll(n)]
            /\ nleft' = [nleft EXCEPT ![t] = NotifyNCalls(n)]
            /\ narg' = [narg EXCEPT ![t] = n]
  /\ UNCHANGED <<state_, slotvars, wvars, nstate, nnew, niter, nloopnext,
                 nloopstate, ndone, npopped, parked, cvars>>

\* Notify: the fence and the first load of state_
NotifyBegin(t) ==
  /\ npc[t] = "n_begin"
  /\ nstate' = [nstate EXCEPT ![t] = state_]
  /\ npc' = [npc EXCEPT ![t] = "n_loop"]
  /\ UNCHANGED <<state_, slotvars, wvars, nall, nleft, nnew, niter, nloopnext,
                 nloopstate, calls, narg, ndone, npopped, parked, cvars>>

\* one pass of Notify's loop up to the compare_exchange: return, or compute new_state
NotifyLoop(t) ==
  /\ npc[t] = "n_loop"
  /\ IF NotifyNothingToDo(nstate[t])
       THEN /\ NotifyReturns(t)
            /\ UNCHANGED calls
       ELSE /\ nnew' = [nnew EXCEPT ![t] =
                 NotifyNewState(nstate[t], nall[t],
                   IF StackEmpty(nstate[t]) THEN nullptr
                   ELSE next_[StackOf(nstate[t])])]
            /\ npc' = [npc EXCEPT ![t] = "n_cas"]
            /\ UNCHANGED <<nall, nleft, nstate, niter, nloopnext, nloopstate,
                           calls, narg, ndone, npopped>>
  /\ UNCHANGED <<state_, slotvars, wvars, parked, cvars>>

\* state_.compare_exchange_weak(state, new_state) and the tests that follow it
NotifyCas(t) ==
  /\ npc[t] = "n_cas"
  /\ IF state_ = nstate[t]
       THEN /\ state_' = nnew[t]
            /\ parked' = IF nall[t] THEN <<>>
                         ELSE IF WaitersOf(nstate[t]) > 0 \/ parked = <<>> THEN parked
                         ELSE Tail(parked)
            /\ IF NotifyHasChain(nstate[t], nall[t])
                 THEN /\ npc' = [npc EXCEPT ![t] = IF nall[t] THEN "n_walk" ELSE "n_clear"]
                      /\ niter' = [niter EXCEPT ![t] = StackOf(nstate[t])]
                      /\ npopped' = [npopped EXCEPT ![t] =
                           IF nall[t] THEN parked
                           ELSE IF parked = <<>> THEN <<>> ELSE <<Head(parked)>>]
                      /\ UNCHANGED <<nall, nleft, nstate, nnew, nloopnext, nloopstate,
                                     narg, ndone>>
                 ELSE NotifyReturns(t)
       ELSE /\ nstate' = [nstate EXCEPT ![t] = state_]
            /\ npc' = [npc EXCEPT ![t] = "n_loop"]
            /\ UNCHANGED <<state_, parked, nall, nleft, nnew, niter, nloopnext,
                           nloopstate, narg, ndone, npopped>>
  /\ UNCHANGED <<slotvars, wvars, calls, cvars>>

\* if (!all) w->next_.store(nullptr)
NotifyClear(t) ==
  /\ npc[t] = "n_clear"
  /\ next_' = [next_ EXCEPT ![niter[t]] = nullptr]
  /\ npc' = [npc EXCEPT ![t] = "n_walk"]
  /\ UNCHANGED <<state_, epoch_, wstate_, cvwake, wvars, nall, nleft, nstate, nnew,
                 niter, nloopnext, nloopstate, calls, narg, ndone, npopped, parked, cvars>>

\* one pass of the signalling loop up to the unlock: load loop_next, lock
\* iter->mutex_, read iter->state_ and set it to kSignaled
NotifyWalk(t) ==
  /\ npc[t] = "n_walk"
  /\ nloopnext' = [nloopnext EXCEPT ![t] = WalkNext(StackOf(nstate[t]), niter[t])]
  /\ nloopstate' = [nloopstate EXCEPT ![t] = wstate_[niter[t]]]
  /\ wstate_' = [wstate_ EXCEPT ![niter[t]] = kSignaled]
  /\ npc' = [npc EXCEPT ![t] = "n_signal"]
  /\ UNCHANGED <<state_, next_, epoch_, cvwake, wvars, nall, nleft, nstate, nnew,
                 niter, calls, narg, ndone, npopped, parked, cvars>>

\* the rest of the pass: cv_.notify_one() if the waiter was kWaiting, then
\* iter = loop_next and the loop test
NotifySignal(t) ==
  /\ npc[t] = "n_signal"
  /\ cvwake' = IF nloopstate[t] = kWaiting /\ pc[niter[t]] = "waiting"
                 THEN [cvwake EXCEPT ![niter[t]] = TRUE]
                 ELSE cvwake
  /\ IF nloopnext[t] = nullptr
       THEN NotifyReturns(t)
       ELSE /\ niter' = [niter EXCEPT ![t] = nloopnext[t]]
            /\ npc' = [npc EXCEPT ![t] = "n_walk"]
            /\ UNCHANGED <<nall, nleft, nstate, nnew, nloopnext, nloopstate,
                           narg, ndone, npopped>>
  /\ UNCHANGED <<state_, next_, epoch_, wstate_, wvars, calls, parked, cvars>>

(* ---------------------------- specifications ---------------------------- *)

WaiterStep(w) ==
  \/ PrepareWait(w)
  \/ CommitWaitBegin(w)
  \/ CommitWaitLoop(w)
  \/ CommitWaitCas(w)
  \/ Park(w)
  \/ Wake(w)
  \/ SpuriousWake(w)
  \/ CancelWaitBegin(w)
  \/ CancelWaitLoop(w)

NotifierStep(t) ==
  \/ NotifyBegin(t)
  \/ NotifyLoop(t)
  \/ NotifyCas(t)
  \/ NotifyClear(t)
  \/ NotifyWalk(t)
  \/ NotifySignal(t)

\* waiter threads and Notify callers, fully concurrent
Next ==
  \/ \E w \in Waiters : WaiterStep(w)
  \/ \E t \in Notifiers : \E all \in BOOLEAN : NotifyCall(t, all)
  \/ \E t \in Notifiers : NotifierStep(t)

Spec == Init /\ [][Next]_vars

(* ------------------- one waiter A and one notifier B --------------------- *)

\* thread A of the two-thread scenario, on slot 0, and thread B
ThreadA == 0

ThreadB == 1

\* A's steps that the scheduler owes it (a spurious return of cv_.wait is not owed)
StepA ==
  \/ PrepareWait(ThreadA)
  \/ CommitWaitBegin(ThreadA)
  \/ CommitWaitLoop(ThreadA)
  \/ CommitWaitCas(ThreadA)
  \/ Park(ThreadA)
  \/ Wake(ThreadA)

\* calls B has made / PrepareWait calls A has made
CallsMade == MaxCalls - calls

RoundsBegun == MaxRounds - rounds[ThreadA]

\* B calls Notify once per round of A, after A's PrepareWait of that round has
\* completed and before its CommitWait has returned
NotifyAfterPrepare(all) ==
  /\ pc[ThreadA] # "idle"
  /\ CallsMade = RoundsBegun - 1
  /\ NotifyCall(ThreadB, all)

NextAB ==
  \/ StepA
  \/ SpuriousWake(ThreadA)
  \/ \E all \in BOOLEAN : NotifyAfterPrepare(all)
  \/ NotifierStep(ThreadB)

FairSpecAB ==
  /\ Init
  /\ [][NextAB]_vars
  /\ WF_vars(StepA)
  /\ WF_vars(NotifierStep(ThreadB))

(* --------------- every slot's waiter and one Notify(true) ---------------- *)

\* a waiter's steps of PrepareWait + CommitWait that the scheduler owes it
CommitStep(w) ==
  \/ PrepareWait(w)
  \/ CommitWaitBegin(w)
  \/ CommitWaitLoop(w)
  \/ CommitWaitCas(w)
  \/ Park(w)
  \/ Wake(w)

InitAll == InitWith([w \in Slots |-> 1], 1)

\* the steps of a Notify(true): the store under `if (!all)` is never run
NotifyAllStep(t) ==
  \/ NotifyBegin(t)
  \/ NotifyLoop(t)
  \/ NotifyCas(t)
  \/ NotifyWalk(t)
  \/ NotifySignal(t)

NextAll ==
  \/ \E w \in Slots : CommitStep(w)
  \/ \E w \in Slots : SpuriousWake(w)
  \/ NotifyCall(ThreadB, TRUE)
  \/ NotifyAllStep(ThreadB)

FairSpecAll ==
  /\ InitAll
  /\ [][NextAll]_vars
  /\ \A w \in Slots : WF_vars(CommitStep(w))
  /\ WF_vars(NotifyAllStep(ThreadB))

(* ------------- parked waiters, then sequential Notify(false) ------------- *)

InitLIFO == InitWith([w \in Slots |-> 1], N)

\* the waiters whose CommitWait has parked them
EverParked == {w \in Slots : rounds[w] = 0}

\* a waiter announces itself only before the first Notify
PrepareBeforeNotify(w) == calls = N /\ PrepareWait(w)

\* one more Notify(false), when no PrepareWait / CommitWait is in flight and
\* fewer calls were made than waiters were parked
NotifyParked ==
  /\ \A w \in Slots : pc[w] \in {"idle", "park", "waiting"}
  /\ N - calls < Cardinality(EverParked)
  /\ NotifyCall(ThreadB, FALSE)

NextLIFO ==
  \/ \E w \in Slots : PrepareBeforeNotify(w)
  \/ \E w \in Slots :
       \/ CommitWaitBegin(w)
       \/ CommitWaitLoop(w)
       \/ CommitWaitCas(w)
       \/ Park(w)
       \/ Wake(w)
       \/ SpuriousWake(w)
  \/ NotifyParked
  \/ NotifierStep(ThreadB)

SpecLIFO == InitLIFO /\ [][NextLIFO]_vars

(* ------------------------ waiters and NotifyN callers -------------------- *)

NextN ==
  \/ \E w \in Waiters : WaiterStep(w)
  \/ \E t \in Notifiers : \E n \in 0..(N + 1) : NotifyNCall(t, n)
  \/ \E t \in Notifiers : NotifierStep(t)

InitN == InitWith([w \in Slots |-> IF w \in Waiters THEN 1 ELSE 0], MaxCalls)

SpecN == InitN /\ [][NextN]_vars

(* ------------- waiter threads of which one makes an extra round ---------- *)

InitRecommit ==
  InitWith([w \in Slots |-> IF w = ThreadA THEN MaxRounds + 1
                            ELSE IF w \in Waiters THEN MaxRounds ELSE 0], MaxCalls)

SpecRecommit == InitRecommit /\ [][Next]_vars

(* ------- waiter threads that call CommitWait after CancelWait ----------- *)

NextCancel ==
  \/ \E w \in Waiters : WaiterStep(w)
  \/ \E w \in Waiters : CommitAfterCancel(w)
  \/ \E t \in Notifiers : \E all \in BOOLEAN : NotifyCall(t, all)
  \/ \E t \in Notifiers : NotifierStep(t)

SpecCancel == Init /\ [][NextCancel]_vars

(* ------------- enough rounds for the epoch field to wrap ---------------- *)

\* the constructor leaves the epoch 2 * N increments below all-ones, so the
\* (2 * N + 1)-th resolved announcement wraps it: one waiter thread makes
\* that many rounds, the other ones one round each, and one Notify is called
WrapRounds == 2 * N + 1

WrapRoundsOf ==
  [w \in Slots |-> IF w = ThreadA THEN WrapRounds ELSE IF w \in Waiters THEN 1 ELSE 0]

InitWrap == InitWith(WrapRoundsOf, 1)

SpecWrap == InitWrap /\ [][Next]_vars

(* ------------ Notify calls on an idle notifier, then waiters ------------- *)

InitIdle == InitWith([w \in Slots |-> 1], MaxCalls)

\* a Notify call made before any waiter has called PrepareWait
NotifyIdle(all) ==
  /\ \A w \in Slots : pc[w] = "idle" /\ rounds[w] = 1
  /\ NotifyCall(ThreadB, all)

\* a PrepareWait called after every Notify call made so far has returned
PrepareAfterNotify(w) == npc[ThreadB] = "idle" /\ PrepareWait(w)

NextIdle ==
  \/ \E all \in BOOLEAN : NotifyIdle(all)
  \/ NotifyBegin(ThreadB)
  \/ NotifyLoop(ThreadB)
  \/ \E w \in Slots :
       \/ PrepareAfterNotify(w)
       \/ CommitWaitBegin(w)
       \/ CommitWaitLoop(w)
       \/ CommitWaitCas(w)
       \/ Park(w)

SpecIdle == InitIdle /\ [][NextIdle]_vars

(* ------- every slot's waiter, committing or cancelling, and Notify ------- *)

InitOrder == InitWith([w \in Slots |-> 1], 1)

\* a waiter's steps that the scheduler owes it (a spurious return of cv_.wait
\* is not owed)
OwedStep(w) ==
  \/ PrepareWait(w)
  \/ CommitWaitBegin(w)
  \/ CommitWaitLoop(w)
  \/ CommitWaitCas(w)
  \/ Park(w)
  \/ Wake(w)
  \/ CancelWaitBegin(w)
  \/ CancelWaitLoop(w)

\* a Notify called when every waiter has announced itself
NotifyAnnounced(all) ==
  /\ \A w \in Slots : rounds[w] = 0
  /\ NotifyCall(ThreadB, all)

NextOrder ==
  \/ \E w \in Slots : OwedStep(w)
  \/ \E w \in Slots : SpuriousWake(w)
  \/ \E all \in BOOLEAN : NotifyAnnounced(all)
  \/ NotifierStep(ThreadB)

FairSpecOrder ==
  /\ InitOrder
  /\ [][NextOrder]_vars
  /\ \A w \in Slots : WF_vars(OwedStep(w))

(* ------------------------------ constructor ----------------------------- *)

\* the arguments given to Notifier(N)
Capacities ==
  (0..CapRange) \cup ((2 ^ kStackBits - 2 - CapRange)..(2 ^ kStackBits - 2 + CapRange))

\* the members after their initializers, waiters_(N) and state_{0}, and before
\* the constructor's body; of the slots only the first few are represented
InitCtor ==
  /\ size \in Capacities
  /\ aborted = FALSE
  /\ state_ = <<0, 0, 0, 0>>
  /\ next_ = [s \in Slots |-> nullptr]
  /\ epoch_ = [s \in Slots |-> <<0, 0, 0, 0>>]
  /\ wstate_ = [s \in Slots |-> kNotSignaled]
  /\ cvwake = [s \in Slots |-> FALSE]
  /\ pc = [w \in Slots |-> "idle"]
  /\ lstate = [w \in Slots |-> <<0, 0, 0, 0>>]
  /\ rounds = [w \in Slots |-> 0]
  /\ npc = [t \in Notifiers |-> "idle"]
  /\ nall = [t \in Notifiers |-> FALSE]
  /\ nleft = [t \in Notifiers |-> 0]
  /\ nstate = [t \in Notifiers |-> <<0, 0, 0, 0>>]
  /\ nnew = [t \in Notifiers |-> <<0, 0, 0, 0>>]
  /\ niter = [t \in Notifiers |-> nullptr]
  /\ nloopnext = [t \in Notifiers |-> nullptr]
  /\ nloopstate = [t \in Notifiers |-> kNotSignaled]
  /\ calls = 0
  /\ narg = [t \in Notifiers |-> -1]
  /\ ndone = [t \in Notifiers |-> 0]
  /\ parked = <<>>
  /\ npopped = [t \in Notifiers |-> <<>>]
  /\ cancelled = [w \in Slots |-> FALSE]

\* the constructor's body: the assert, then the assignment of state_
CtorBody ==
  /\ state_ = <<0, 0, 0, 0>>
  /\ ~aborted
  /\ IF CtorAssert(size)
       THEN /\ state_' = InitState(size)
            /\ UNCHANGED aborted
       ELSE /\ aborted' = TRUE
            /\ UNCHANGED state_
  /\ UNCHANGED <<slotvars, wvars, nvars, parked, size>>

SpecCtor == InitCtor /\ [][CtorBody]_vars

(* ------------------------- vocabulary of the claims --------------------- *)

Range(q) == {q[i] : i \in 1..Len(q)}

\* w has announced itself and no operation has resolved its announcement yet
Announced(w) ==
  /\ pc[w] \in {"prepared", "commit_loop", "commit_cas", "cancel_loop"}
  /\ EpochCmp(state_, ExpectedEpoch(epoch_[w])) <= 0

\* w's CommitWait has not returned after its push
InPark(w) == pc[w] \in {"park", "waiting"}

\* this step is the successful compare_exchange of w's CommitWait / CancelWait
CommitCasWins(w) == pc[w] = "commit_cas" /\ pc'[w] = "park"

CancelCasWins(w) == pc[w] = "cancel_loop" /\ pc'[w] = "idle" /\ state_' # state_

\* this step is the successful compare_exchange of t's Notify
NotifyCasWins(t) == npc[t] = "n_cas" /\ npc'[t] \notin {"n_cas", "n_loop"}

(* --------------------------------- C8 ----------------------------------- *)

\* C8: in every reachable state the stack-head field is the all-ones sentinel or
\* an index below N, and the prepare-count field is at most N.
C8_StateWordInv ==
  /\ StackOf(state_) = Limb - 1 \/ StackOf(state_) < N
  /\ WaitersOf(state_) <= N

\* a waiter is parked on the stack while another one is announced
C8_Witness ==
  /\ StackOf(state_) < N
  /\ WaitersOf(state_) > 0
  /\ \E w \in Waiters : Announced(w)

(* --------------------------------- C7 ----------------------------------- *)

\* C7: the destructor's assertion holds exactly when no waiter is announced
\* and unresolved and no waiter is on the park stack. So it holds once every
\* call has returned, and it fails while a PrepareWait is outstanding or a
\* waiter is still parked.
C7_Teardown ==
  /\ DtorAssert <=> ((\A w \in Slots : ~Announced(w)) /\ parked = <<>>)
  /\ ((\A w \in Slots : pc[w] = "idle") /\ (\A t \in Notifiers : npc[t] = "idle"))
       => DtorAssert
  /\ (\E w \in Slots : pc[w] = "prepared" /\ Announced(w)) => ~DtorAssert

(* --------------------------------- C9 ----------------------------------- *)

\* this step resolves a waiter: a CommitWait park, a CancelWait rollback or a
\* successful Notify compare_exchange
ResolvingStep ==
  \/ \E w \in Slots : CommitCasWins(w) \/ CancelCasWins(w)
  \/ \E t \in Notifiers : NotifyCasWins(t)

\* the epoch of the new state is ahead of the old one, in the wrap-safe order
EpochAdvances == EpochCmp(state_', EpochOf(state_)) > 0

\* C9 as stated: every step that resolves a waiter (a park, a rollback, a
\* Notify step resolving an announced or a parked waiter) strictly increases the
\* epoch, and no step decreases it.
C9_EveryResolveAdvances ==
  [][/\ ResolvingStep => EpochAdvances
     /\ EpochCmp(state_', EpochOf(state_)) >= 0]_vars

\* C9 as amended: a park, a rollback and a Notify step that finds prepare-count
\* > 0 strictly increase the epoch; a Notify step that finds prepare-count = 0
\* and only takes parked waiters off the stack leaves the epoch unchanged; no
\* step decreases it.
C9_AnnouncedResolveAdvances ==
  [][/\ (\E w \in Slots : CommitCasWins(w) \/ CancelCasWins(w)) => EpochAdvances
     /\ \A t \in Notifiers :
          NotifyCasWins(t) =>
            IF WaitersOf(state_) > 0 THEN EpochAdvances
            ELSE EpochOf(state_') = EpochOf(state_)
     /\ EpochCmp(state_', EpochOf(state_)) >= 0]_vars

\* a Notify has just taken parked waiters off the stack and the epoch is the
\* one it read
C9_Witness ==
  \E t \in Notifiers :
    /\ npc[t] \in {"n_clear", "n_walk"}
    /\ npopped[t] # <<>>
    /\ WaitersOf(nstate[t]) = 0
    /\ EpochOf(state_) = EpochOf(nstate[t])

(* --------------------------------- C5 ----------------------------------- *)

\* C5: PrepareWait(w) followed by CancelWait(w) with nothing in between leaves
\* the stack-head and prepare-count fields as they were before the PrepareWait
\* (w->epoch_ holds that word) and only the epoch differs; neither call writes a
\* slot's next link or signal state.
C5_CancelSymmetry ==
  [][\A w \in Slots :
       /\ (CancelCasWins(w) /\ state_ = PrepareNewState(epoch_[w])) =>
            /\ StackOf(state_') = StackOf(epoch_[w])
            /\ WaitersOf(state_') = WaitersOf(epoch_[w])
            /\ EpochOf(state_') # EpochOf(epoch_[w])
       /\ (PrepareWait(w) \/ CancelWaitBegin(w) \/ CancelWaitLoop(w)) =>
            UNCHANGED <<next_, wstate_, cvwake>>]_vars

\* w's CancelWait has just rolled back the PrepareWait before it while another
\* waiter is parked
C5_Witness ==
  \E w \in Waiters :
    /\ pc[w] = "idle"
    /\ rounds[w] < MaxRounds
    /\ ~StackEmpty(state_)
    /\ StackOf(state_) = StackOf(epoch_[w])
    /\ WaitersOf(state_) = WaitersOf(epoch_[w])
    /\ EpochOf(state_) = Add64(EpochOf(epoch_[w]), kEpochInc)

(* --------------------------------- C10 ---------------------------------- *)

\* t is in the signalling loop with iter = s
Signalling(t, s) == npc[t] \in {"n_walk", "n_signal"} /\ niter[t] = s

\* C10: no two Notify calls are in the signalling section for the same slot,
\* and a Notify about to write a slot's signal state finds that slot's
\* CommitWait still inside its park section.
C10_SingleResolver ==
  /\ \A t1, t2 \in Notifiers : \A s \in Slots :
       (Signalling(t1, s) /\ Signalling(t2, s)) => t1 = t2
  /\ \A t \in Notifiers : npc[t] = "n_walk" => InPark(niter[t])

(* --------------------------------- C1 ----------------------------------- *)

\* A's CommitWait of round r has returned
RoundReturned(r) ==
  \/ RoundsBegun > r
  \/ RoundsBegun = r /\ pc[ThreadA] = "idle"

\* C1: when B's Notify (all or not) begins after A's PrepareWait has completed,
\* A being the only waiter, A's CommitWait returns: without parking, or after
\* parking and being signalled. A never stays blocked.
C1_NoMissedWakeup ==
  \A r \in 1..MaxCalls : (CallsMade = r) ~> RoundReturned(r)

\* A parked, was signalled by B's Notify and woken by its notify_one, and its
\* CommitWait has returned
C1_Witness ==
  /\ pc[ThreadA] = "idle"
  /\ RoundsBegun = 1
  /\ CallsMade = 1
  /\ wstate_[ThreadA] = kSignaled
  /\ npc[ThreadB] = "idle"
  /\ StackEmpty(state_)

(* --------------------------------- C2 ----------------------------------- *)

\* w's PrepareWait + CommitWait pair is over
PairReturned(w) == pc[w] = "idle" /\ rounds[w] = 0

\* the Notify(true) of B has resolved w: popped it from the stack, or moved the
\* epoch past its announcement
ResolvedByNotifyAll(w) ==
  /\ calls = 0
  /\ \/ w \in Range(npopped[ThreadB])
     \/ /\ pc[w] \in {"prepared", "commit_loop", "commit_cas"}
        /\ EpochCmp(state_, ExpectedEpoch(epoch_[w])) > 0

\* C2: after one Notify(true), with any mix of announced and parked waiters,
\* every waiter that was announced or parked when its compare_exchange succeeded
\* has its CommitWait return.
C2_NotifyAllWakesAll ==
  \A w \in Slots : ResolvedByNotifyAll(w) ~> PairReturned(w)

(* --------------------------------- C4 ----------------------------------- *)

\* C4: every Notify call terminates under fair scheduling (as do PrepareWait
\* and CancelWait), whatever number of waiters is announced or parked.
C4_NotifyTerminates ==
  (npc[ThreadB] # "idle") ~> (npc[ThreadB] = "idle")

(* --------------------------------- C3 ----------------------------------- *)

\* C3: with k waiters parked, prepare-count 0 and nothing else running, the
\* i-th of k sequential Notify(false) calls signals the waiter on top of the
\* park stack (the i-th most recently parked), a waiter not signalled before;
\* after i calls exactly i waiters have been signalled, and after k calls the
\* stack is empty.
C3_SingleNotifyLIFO ==
  /\ npc[ThreadB] \in {"n_clear", "n_walk", "n_signal"} =>
       /\ npopped[ThreadB] = <<niter[ThreadB]>>
       /\ npc[ThreadB] # "n_signal" => wstate_[niter[ThreadB]] # kSignaled
  /\ (npc[ThreadB] = "idle" /\ calls < N) =>
       /\ Cardinality({w \in Slots : wstate_[w] = kSignaled}) = N - calls
       /\ Len(parked) = Cardinality(EverParked) - (N - calls)
       /\ StackOf(state_) = IF parked = <<>> THEN Limb - 1 ELSE Head(parked)
       /\ (N - calls = Cardinality(EverParked)) => StackEmpty(state_)

\* N waiters parked, N Notify(false) calls returned, every CommitWait returned
C3_Witness ==
  /\ calls = 0
  /\ npc[ThreadB] = "idle"
  /\ \A w \in Slots : PairReturned(w) /\ wstate_[w] = kSignaled
  /\ StackEmpty(state_)

(* --------------------------------- C6 ----------------------------------- *)

\* the slot after s on the stack, as a stack-head field
NextHead(s) == IF next_[s] = nullptr THEN Limb - 1 ELSE next_[s]

\* state_' is what Notify(true) makes of state_
NotifyAllTransition ==
  /\ StackEmpty(state_')
  /\ WaitersOf(state_') = 0
  /\ EpochOf(state_') = Add64(EpochOf(state_), EpochTimes(WaitersOf(state_)))

\* state_' is what Notify(false) makes of state_
NotifyOneTransition ==
  IF WaitersOf(state_) > 0
    THEN state_' = Sub64(Add64(state_, kEpochInc), kWaiterInc)
    ELSE /\ EpochOf(state_') = EpochOf(state_)
         /\ WaitersOf(state_') = 0
         /\ StackOf(state_') = NextHead(StackOf(state_))

\* C6: NotifyN(n) with n >= N makes the one transition of Notify(true);
\* NotifyN(n) with 0 < n < N makes n sequential Notify(false) calls; NotifyN(0)
\* leaves the state word and every slot unchanged.
C6_NotifyNBoundary ==
  [][\A t \in Notifiers :
       /\ narg[t] >= N =>
            /\ nall[t] /\ nleft[t] = 1 /\ ndone[t] = 0
            /\ NotifyCasWins(t) => NotifyAllTransition
       /\ (0 < narg[t] /\ narg[t] < N) =>
            /\ ~nall[t] /\ ndone[t] + nleft[t] = narg[t]
            /\ NotifyCasWins(t) => NotifyOneTransition
       /\ (npc[t] = "idle" /\ npc'[t] = "idle" /\ calls' # calls) =>
            UNCHANGED <<state_, slotvars>>
       /\ (npc[t] = "idle" /\ calls' # calls) =>
            \/ npc'[t] = "idle"
            \/ nleft'[t] = IF narg'[t] >= N THEN 1 ELSE narg'[t]]_vars

\* the last Notify(false) of a NotifyN(N - 1) has popped a parked waiter
C6_Witness ==
  \E t \in Notifiers :
    /\ narg[t] = N - 1
    /\ ndone[t] = N - 2
    /\ npc[t] = "n_walk"
    /\ npopped[t] # <<>>

(* --------------------------------- C11 ---------------------------------- *)

\* the constructor's body has assigned state_
Constructed == state_ # <<0, 0, 0, 0>>

ResolvedByBump(w) ==
  /\ pc[w] = "prepared"
  /\ EpochCmp(state_, ExpectedEpoch(epoch_[w])) > 0

\* the epoch moves past w's announcement in this step
BumpsPast(w) ==
  /\ pc[w] = "prepared"
  /\ EpochCmp(state_, ExpectedEpoch(epoch_[w])) <= 0
  /\ EpochCmp(state_', ExpectedEpoch(epoch_[w])) > 0

\* C12: only the epoch bump of a Notify (Notify(true), or Notify(false) finding
\* prepare-count > 0) resolves a waiter that is announced and has not called
\* CommitWait / CancelWait; the CommitWait or CancelWait it calls afterwards
\* loads a state with current > expected and returns in its first pass, and no
\* step of that call changes the state word, the park stack or a next link.
C12_ResolvedWithoutParking ==
  [][\A w \in Slots :
       /\ BumpsPast(w) =>
            \E t \in Notifiers :
              NotifyCasWins(t) /\ (nall[t] \/ WaitersOf(state_) > 0)
       /\ (ResolvedByBump(w) /\ pc'[w] # pc[w]) =>
            /\ pc'[w] \in {"commit_loop", "cancel_loop"}
            /\ EpochCmp(lstate'[w], ExpectedEpoch(epoch_[w])) > 0
            /\ UNCHANGED <<state_, next_, parked>>
       /\ (/\ pc[w] \in {"commit_loop", "cancel_loop"}
           /\ EpochCmp(lstate[w], ExpectedEpoch(epoch_[w])) > 0
           /\ lstate'[w] # lstate[w]) =>
            /\ pc'[w] = "idle"
            /\ UNCHANGED <<state_, next_, parked>>]_vars

\* a waiter resolved by a Notify while announced has called CommitWait, which
\* loaded a state past its announcement, while another waiter is parked
C12_Witness ==
  \E w \in Waiters :
    /\ pc[w] = "commit_loop"
    /\ EpochCmp(lstate[w], ExpectedEpoch(epoch_[w])) > 0
    /\ StackOf(state_) < N
    /\ StackOf(state_) # w

(* --------------------------------- C13 ---------------------------------- *)

\* the waiters announced and not yet resolved
AnnouncedSet == {w \in Slots : Announced(w)}

\* the announced waiter whose announcement the epoch has reached: the earliest
\* one still unresolved
EarliestAnnounced == {w \in AnnouncedSet : EpochCmp(state_, ExpectedEpoch(epoch_[w])) = 0}

\* C13: a successful compare_exchange of Notify(false) that finds
\* prepare-count > 0 adds one to the epoch, takes one from the prepare-count,
\* leaves the stack-head and every slot's signal state and next link as they
\* are, and the call returns without signalling, even when the park stack is
\* not empty; exactly one announced waiter, the earliest unresolved one, is
\* resolved by it.
C13_NotifyPrefersAnnounced ==
  [][\A t \in Notifiers :
       (NotifyCasWins(t) /\ ~nall[t] /\ WaitersOf(state_) > 0) =>
         /\ EpochOf(state_') = Add64(EpochOf(state_), kEpochInc)
         /\ WaitersOf(state_') = WaitersOf(state_) - 1
         /\ StackOf(state_') = StackOf(state_)
         /\ UNCHANGED <<wstate_, cvwake, next_, parked>>
         /\ npc'[t] \in {"idle", "n_begin"}
         /\ Cardinality(EarliestAnnounced) = 1
         /\ AnnouncedSet' = AnnouncedSet \ EarliestAnnounced]_vars

\* a Notify(false) has computed the cheap path's new_state from the current
\* state word while a waiter is parked and another one is announced
C13_Witness ==
  \E t \in Notifiers :
    /\ npc[t] = "n_cas"
    /\ ~nall[t]
    /\ state_ = nstate[t]
    /\ WaitersOf(state_) > 0
    /\ StackOf(state_) < N
    /\ nnew[t] = Sub64(Add64(state_, kEpochInc), kWaiterInc)

(* --------------------------------- C14 ---------------------------------- *)

\* C14: a Notify(true) or Notify(false) that loads a state word with an empty
\* stack and a prepare-count of 0 returns from its first pass, and no step of
\* it changes the state word (epoch included) or a slot; a PrepareWait +
\* CommitWait pair begun after such calls returned never sees current >
\* expected and does not return: it parks.
C14_IdleNotifyNoOp ==
  [][/\ \A t \in Notifiers :
          /\ (/\ npc[t] = "n_loop"
              /\ StackOf(nstate[t]) = 65535
              /\ WaitersOf(nstate[t]) = 0
              /\ npc'[t] # npc[t]) =>
               npc'[t] = "idle"
          /\ npc'[t] # npc[t] => UNCHANGED <<state_, slotvars, parked>>
     /\ \A w \in Slots :
          /\ pc[w] = "commit_loop" => EpochCmp(lstate[w], ExpectedEpoch(epoch_[w])) <= 0
          /\ pc[w] # "idle" => pc'[w] # "idle"]_vars

\* Notify calls returned on the idle notifier, and then every waiter parked and
\* is blocked in cv_.wait
C14_Witness ==
  /\ calls = 0
  /\ npc[ThreadB] = "idle"
  /\ \A w \in Slots : pc[w] = "waiting" /\ wstate_[w] = kWaiting
  /\ Len(parked) = N

(* --------------------------------- C15 ---------------------------------- *)

\* C15: the successful compare_exchange of CommitWait is made on the current
\* == expected branch with prepare-count > 0; in that one step prepare-count
\* goes down by one, the epoch up by one and stack-head becomes the committing
\* waiter's index, whose next link holds the previous head (nullptr if that
\* was the sentinel); no step of CommitWait writes another slot's next link;
\* the caller blocks only after this step and leaves the park section only
\* with its signal state kSignaled.
C15_ParkIsOneStep ==
  [][\A w \in Slots :
       /\ CommitCasWins(w) =>
            /\ EpochCmp(state_, ExpectedEpoch(epoch_[w])) = 0
            /\ WaitersOf(state_) > 0
            /\ WaitersOf(state_') = WaitersOf(state_) - 1
            /\ EpochOf(state_') = Add64(EpochOf(state_), kEpochInc)
            /\ StackOf(state_') = w
            /\ next_[w] = IF StackOf(state_) = 65535 THEN nullptr ELSE StackOf(state_)
            /\ UNCHANGED next_
       /\ (pc[w] \in {"commit_loop", "commit_cas"} /\ pc'[w] # pc[w]) =>
            \A v \in Slots \ {w} : next_'[v] = next_[v]
       /\ (pc'[w] \in {"park", "waiting"} /\ pc[w] \notin {"park", "waiting"}) =>
            CommitCasWins(w)
       /\ (pc[w] \in {"park", "waiting"} /\ pc'[w] = "idle") =>
            wstate_[w] = kSignaled]_vars

\* a waiter has pushed itself on top of another parked waiter and has not yet
\* entered the park section's wait
C15_Witness ==
  \E w \in Waiters :
    /\ pc[w] = "park"
    /\ StackOf(state_) = w
    /\ next_[w] \in Slots
    /\ wstate_[w] = kNotSignaled

(* --------------------------------- C16 ---------------------------------- *)

\* w is inside CommitWait or CancelWait, before the park section
InCall(w) == pc[w] \in {"commit_loop", "commit_cas", "cancel_loop"}

\* v's PrepareWait completed before w's: its announcement is the older one
Earlier(v, w) ==
  Sign64(Sub64(ExpectedEpoch(epoch_[v]), ExpectedEpoch(epoch_[w]))) < 0

\* a waiter announced before w is still unresolved
EarlierUnresolved(w) == \E v \in Slots \ {w} : Announced(v) /\ Earlier(v, w)

\* C16: while a waiter announced earlier is unresolved, a waiter inside
\* CommitWait / CancelWait holds a state with current < expected, so that it
\* can only yield and re-read, and it stays in its loop; the state word has
\* current < expected for a waiter exactly when an earlier announced waiter is
\* unresolved; and a call that no earlier announced waiter holds back leaves
\* its loop (returns or parks).
C16_AnnouncementOrder ==
  /\ [][\A w \in Slots :
          (InCall(w) /\ EarlierUnresolved(w)) =>
            /\ pc[w] # "commit_cas"
            /\ EpochCmp(lstate[w], ExpectedEpoch(epoch_[w])) < 0
            /\ pc'[w] = pc[w]]_vars
  /\ [](\A w \in Slots :
          (InCall(w) \/ pc[w] = "prepared") =>
            (EpochCmp(state_, ExpectedEpoch(epoch_[w])) < 0 <=> EarlierUnresolved(w)))
  /\ \A w \in Slots : (InCall(w) /\ ~EarlierUnresolved(w)) ~> ~InCall(w)

\* a waiter is yielding in its loop behind an earlier announced waiter that
\* has not called CommitWait or CancelWait yet
C16_Witness ==
  \E w \in Slots :
    /\ InCall(w)
    /\ EpochCmp(lstate[w], ExpectedEpoch(epoch_[w])) < 0
    /\ \E v \in Slots \ {w} : pc[v] = "prepared" /\ Announced(v) /\ Earlier(v, w)

(* --------------------------------- C17 ---------------------------------- *)

\* what separates the constructor's epoch from an epoch of 0
EpochDelta == Sub64(<<0, 0, 0, 0>>, EpochOf(InitState(N)))

\* the word a notifier constructed with epoch 0 holds where this one holds s,
\* after the same operations
Shift(s) == Add64(s, EpochDelta)

\* the expected epoch computed from the shifted snapshot is the shifted
\* expected epoch, and the state word compares with it in the same way
SameTicket(w) ==
  /\ ExpectedEpoch(Shift(epoch_[w])) = Add64(ExpectedEpoch(epoch_[w]), EpochDelta)
  /\ EpochCmp(Shift(state_), ExpectedEpoch(Shift(epoch_[w]))) =
       EpochCmp(state_, ExpectedEpoch(epoch_[w]))

\* a waiter's CommitWait / CancelWait computes the same on the shifted words:
\* same branch, same next link, same compare_exchange outcome, same new state
\* up to the shift
SameWaiterStep(w) ==
  LET l == lstate[w]
      e == epoch_[w]
  IN  /\ EpochCmp(Shift(l), ExpectedEpoch(Shift(e))) = EpochCmp(l, ExpectedEpoch(e))
      /\ CommitNext(Shift(l)) = CommitNext(l)
      /\ CommitNewState(Shift(l), w) = Shift(CommitNewState(l, w))
      /\ CancelNewState(Shift(l)) = Shift(CancelNewState(l))
      /\ (Shift(state_) = Shift(l)) <=> (state_ = l)

\* a Notify computes the same on the shifted words
SameNotifyStep(t) ==
  LET s == nstate[t]
      wnext == IF StackEmpty(s) THEN nullptr ELSE next_[StackOf(s)]
  IN  /\ NotifyNothingToDo(Shift(s)) <=> NotifyNothingToDo(s)
      /\ \A all \in BOOLEAN :
           /\ NotifyNewState(Shift(s), all, wnext) = Shift(NotifyNewState(s, all, wnext))
           /\ NotifyHasChain(Shift(s), all) <=> NotifyHasChain(s, all)
      /\ (Shift(state_) = Shift(s)) <=> (state_ = s)

\* C17: a notifier whose epoch starts at 0 and this one, whose epoch starts
\* at all-ones minus 2 * N increments, driven by the same operations: the
\* zero-started one starts at the shifted initial word, and in every
\* reachable state each operation takes the same branch on the shifted words
\* and yields the shifted new word, which has the same stack-head and
\* prepare-count; that is so before, at and after the wrap of the epoch.
C17_InitialEpochIrrelevant ==
  /\ Shift(InitState(N)) = kStackMask
  /\ StackOf(Shift(state_)) = StackOf(state_)
  /\ WaitersOf(Shift(state_)) = WaitersOf(state_)
  /\ PrepareNewState(Shift(state_)) = Shift(PrepareNewState(state_))
  /\ \A w \in Slots :
       /\ pc[w] = "prepared" => SameTicket(w)
       /\ pc[w] \in {"commit_loop", "commit_cas", "cancel_loop"} =>
            SameTicket(w) /\ SameWaiterStep(w)
  /\ \A t \in Notifiers : npc[t] \in {"n_loop", "n_cas"} => SameNotifyStep(t)

\* the epoch has wrapped to 0 while a waiter that announced itself before the
\* wrap is in its CommitWait, and a Notify is about to compare_exchange
C17_Witness ==
  /\ EpochOf(state_) = <<0, 0, 0, 0>>
  /\ \E w \in Waiters :
       /\ pc[w] = "commit_loop"
       /\ epoch_[w][4] = Limb - 1
       /\ ExpectedEpoch(epoch_[w]) = <<0, 0, 0, 0>>
  /\ \E t \in Notifiers : npc[t] = "n_cas"

(* --------------------------------- C18 ---------------------------------- *)

RECURSIVE SumOver(_, _)
\* the sum of f over the set S
SumOver(f, S) ==
  IF S = {} THEN 0
  ELSE LET x == CHOOSE y \in S : TRUE IN f[x] + SumOver(f, S \ {x})

\* PrepareWait calls completed so far
PreparesDone == SumOver(WrapRoundsOf, Slots) - SumOver(rounds, Slots)

\* epoch + prepare-count, in the epoch field's 32 bits
TicketSum(s) == Add64(EpochOf(s), EpochTimes(WaitersOf(s)))

\* C18: in every reachable state epoch + prepare-count equals, modulo 2^32,
\* the initial epoch plus the number of completed PrepareWait calls; a
\* PrepareWait adds one to the prepare-count and leaves the epoch and the
\* stack-head alone; every other step leaves epoch + prepare-count unchanged.
C18_TicketConservation ==
  /\ [](TicketSum(state_) = Add64(EpochOf(InitState(N)), EpochTimes(PreparesDone)))
  /\ [][IF rounds' # rounds
          THEN /\ WaitersOf(state_') = WaitersOf(state_) + 1
               /\ EpochOf(state_') = EpochOf(state_)
               /\ StackOf(state_') = StackOf(state_)
          ELSE TicketSum(state_') = TicketSum(state_)]_vars

\* the epoch is all-ones and two waiters are announced: epoch + prepare-count
\* has wrapped
C18_Witness ==
  /\ EpochOf(state_) = kEpochMask
  /\ WaitersOf(state_) = 2
  /\ PreparesDone = 2 * N + 2

(* --------------------------------- C19 ---------------------------------- *)

RECURSIVE ChainFrom(_, _)
\* the slots met from h along the next links, at most k of them
ChainFrom(h, k) ==
  IF h \notin Slots \/ k = 0 THEN <<>>
  ELSE <<h>> \o ChainFrom(next_[h], k - 1)

\* the park stack as the state word and the next links hold it, top first; a
\* chain of more than N slots has met a slot twice
Chain == ChainFrom(StackOf(state_), N + 1)

\* C19: the chain from stack-head along the next links ends (it is acyclic
\* and holds no slot twice); it holds exactly the waiters that a CommitWait
\* pushed and no Notify has taken off, in the order of their pushes; and no
\* waiter on it has returned from its CommitWait.
C19_ParkStackIntegrity ==
  /\ Len(Chain) <= N
  /\ Cardinality(Range(Chain)) = Len(Chain)
  /\ Chain = parked
  /\ \A w \in Range(Chain) : InPark(w)

(* --------------------------------- C20 ---------------------------------- *)

\* w is inside the CommitWait it called after its CancelWait returned
CommitsAfterCancel(w) == cancelled[w] /\ pc[w] # "idle"

\* C20: a CommitWait called after PrepareWait and CancelWait on the same
\* slot, with no PrepareWait in between, loads a state with current >
\* expected, whatever Notify calls and other waiters do meanwhile; it never
\* reaches the compare_exchange or the park section, no step of it changes the
\* state word, the park stack or a next link, and its first pass returns.
C20_CommitAfterCancel ==
  [][\A w \in Slots :
       /\ CommitsAfterCancel(w) =>
            /\ pc[w] = "commit_loop"
            /\ EpochCmp(lstate[w], ExpectedEpoch(epoch_[w])) > 0
       /\ (cancelled[w] /\ pc'[w] # pc[w]) =>
            /\ pc'[w] \in {"idle", "commit_loop", "prepared"}
            /\ pc'[w] # "prepared" => UNCHANGED <<state_, next_, parked>>
       /\ (CommitsAfterCancel(w) /\ lstate'[w] # lstate[w]) => pc'[w] = "idle"]_vars

\* a waiter thread is inside the CommitWait it called after CancelWait, while
\* another waiter is parked and a third party's Notify is running
C20_Witness ==
  \E w \in Waiters :
    /\ CommitsAfterCancel(w)
    /\ StackOf(state_) < N
    /\ \E t \in Notifiers : npc[t] # "idle"

====
